---- MODULE Spec2Model ----
(***************************************************************************)
(* Block-partitioned correlation matrix of distanceMatrix.ipynb.           *)
(*                                                                         *)
(* The notebook builds five RDDs, one per cell:                            *)
(*   stage0 = sc.parallelize(matrix,p)                                     *)
(*   stage1 = stage0.mapPartitionsWithIndex(f)                             *)
(*   stage2 = stage1.flatMap(makePairParts)                                *)
(*   stage3 = stage2.groupByKey()                                          *)
(*   stage4 = stage3.map(getCorrelation)                                   *)
(* and collects stage4.  Each cell is one action.  The engine's freedom    *)
(* is the order of the entries inside each group of stage3.                *)
(*                                                                         *)
(* Numbers: a correlation coefficient is the real number                   *)
(* num / sqrt(den).  It is kept exactly, as <<sign, a, b>> with a/b the    *)
(* reduced fraction num^2/den; 0/0 (numpy's nan) is <<0,0,0>>.  The means  *)
(* are kept exactly by scaling every centred entry by the row length.      *)
(***************************************************************************)
EXTENDS Integers, Sequences, FiniteSets, TLC

\* Bounds of the model.
MaxN == 6
MaxP == 3
MaxPeriod == 3
MaxKeyIdx == 10
MaxGroupLen == 3
MaxGroupIdx == 1
MaxBlockLen == 1

\* PySpark's default batch size of the serializer sc.parallelize uses.
DefaultBatchSize == 1024

\* Rows the matrix is filled with (the notebook draws them at random):
\* two rows of different variance, correlated -sqrt(3)/2, and one row
\* without variance.
RowPool == {<<0, 1, 2>>, <<2, 0, 0>>, <<1, 1, 1>>}

VARIABLES
    n,          \* number of rows of matrix
    p,          \* number of partitions
    matrix,     \* the feature matrix, a sequence of n rows
    pc,         \* the last cell that was run
    stage0,     \* sequence of p partitions, each a sequence of rows
    stage1,     \* sequence of (splitIndex, rows)
    stage2,     \* sequence of (key, (k, rows))
    stage3,     \* key -> sequence of (k, rows), in delivery order
    stage4,     \* key -> what getCorrelation returned for the key's group
    result,     \* what collect() returned
    kl,         \* <<k, l, k2, l2>>: indices given to the key function
    keys,       \* the keys built from kl
    v,          \* a group given to getCorrelation
    ret         \* what getCorrelation returned for v

vars == <<n, p, matrix, pc, stage0, stage1, stage2, stage3, stage4, result,
          kl, keys, v, ret>>

keyVars == <<kl, keys>>
groupVars == <<v, ret>>

----------------------------------------------------------------------------
\* Arithmetic and sequence helpers.

Min(a, b) == IF a <= b THEN a ELSE b
Max(a, b) == IF a >= b THEN a ELSE b
Sign(a) == IF a > 0 THEN 1 ELSE IF a < 0 THEN -1 ELSE 0

RECURSIVE GCD(_, _)
GCD(a, b) == IF b = 0 THEN a ELSE GCD(b, a % b)

RECURSIVE SumSeq(_)
SumSeq(s) == IF s = <<>> THEN 0 ELSE s[1] + SumSeq(Tail(s))

RECURSIVE Flatten(_)
Flatten(ss) == IF ss = <<>> THEN <<>> ELSE ss[1] \o Flatten(Tail(ss))

Reverse(s) == [i \in 1..Len(s) |-> s[Len(s) + 1 - i]]

\* The indices of S in increasing order.
RECURSIVE Ascending(_)
Ascending(S) ==
    IF S = {} THEN <<>>
    ELSE LET m == CHOOSE x \in S : \A y \in S : x <= y
         IN <<m>> \o Ascending(S \ {m})

----------------------------------------------------------------------------
\* Stage 1: sc.parallelize(matrix,p) and f.

\* batchSize = max(1, min(len(c) // numSlices, self._batchSize or 1024))
batchSize(len, numSlices) ==
    Max(1, Min(len \div numSlices, DefaultBatchSize))

\* The serializer writes c in batches of b consecutive elements.
batched(c, b) ==
    [j \in 1..((Len(c) + b - 1) \div b) |->
        SubSeq(c, (j - 1) * b + 1, Min(j * b, Len(c)))]

\* The engine cuts a collection of length m in numSlices slices, slice i
\* (from 0) holding positions [i*m/numSlices, (i+1)*m/numSlices).
slice(c, numSlices) ==
    [i \in 1..numSlices |->
        SubSeq(c, ((i - 1) * Len(c)) \div numSlices + 1,
                  (i * Len(c)) \div numSlices)]

\* sc.parallelize(c, numSlices): the batches are sliced, and a partition
\* reads back the elements of its batches.
parallelize(c, numSlices) ==
    LET parts == slice(batched(c, batchSize(Len(c), numSlices)), numSlices)
    IN [i \in 1..numSlices |-> Flatten(parts[i])]

\* A plausible slip: the tag counts from 1.
f_OneBased(splitIndex, rows) == <<<<splitIndex + 1, rows>>>>

\* def f(splitIndex, v): return [(splitIndex, list(v))]
f(splitIndex, rows) == <<<<splitIndex, rows>>>>

\* stage0.mapPartitionsWithIndex(f)
mapPartitionsWithIndex(rdd) ==
    Flatten([i \in 1..Len(rdd) |-> f(i - 1, rdd[i])])

----------------------------------------------------------------------------
\* Stage 2: makePairParts.

\* Decimal digits of a natural number, as str() prints it.
RECURSIVE Digits(_)
Digits(i) ==
    LET d == <<"0", "1", "2", "3", "4", "5", "6", "7", "8", "9">>
    IN IF i < 10 THEN <<d[i + 1]>> ELSE Digits(i \div 10) \o <<d[(i % 10) + 1]>>

RECURSIVE JoinItems(_)
JoinItems(s) ==
    IF s = <<>> THEN <<>>
    ELSE IF Len(s) = 1 THEN Digits(s[1])
    ELSE Digits(s[1]) \o <<",", " ">> \o JoinItems(Tail(s))

\* str() of a list of naturals: "[0, 1]", a sequence of characters.
str(s) == <<"[">> \o JoinItems(s) \o <<"]">>

\* A plausible slip: the pair is not sorted.
sorted_Unsorted(kl2) == kl2

\* sorted([k,l]) of a two-element list.
sorted(kl2) == IF kl2[1] <= kl2[2] THEN kl2 ELSE <<kl2[2], kl2[1]>>

\* The key of makePairParts: str(sorted([k,l])).
PairKey(k, l) == str(sorted(<<k, l>>))

\* A plausible slip: range(0,k+1), only the partners up to k.
makePairParts_UpToK(k, rows, parts) ==
    [l1 \in 1..(k + 1) |-> <<PairKey(k, l1 - 1), <<k, rows>>>>]

\* return [(str(sorted([k,l])),(k,v)) for l in range(0,p)]
makePairParts(k, rows, parts) ==
    [l1 \in 1..parts |-> <<PairKey(k, l1 - 1), <<k, rows>>>>]

\* stage1.flatMap(lambda (k,v): makePairParts(k,v,p))
flatMapPairParts(rdd, parts) ==
    Flatten([i \in 1..Len(rdd) |-> makePairParts(rdd[i][1], rdd[i][2], parts)])

----------------------------------------------------------------------------
\* Stage 4: corr2_coeff and getCorrelation.

\* The real number num / sqrt(den), den >= 0; 0/0 is nan.
NaN == <<0, 0, 0>>
One == <<1, 1, 1>>
Quot(num, den) ==
    IF den = 0 THEN NaN
    ELSE IF num = 0 THEN <<0, 0, 1>>
    ELSE LET g == GCD(num * num, den)
         IN <<Sign(num), (num * num) \div g, den \div g>>

\* A - A.mean(1)[:,None], every entry scaled by the row length.
Centred(A) ==
    [i \in 1..Len(A) |->
        [t \in 1..Len(A[i]) |-> Len(A[i]) * A[i][t] - SumSeq(A[i])]]

\* (A_mA**2).sum(1)
SumSq(A_mA) ==
    [i \in 1..Len(A_mA) |->
        SumSeq([t \in 1..Len(A_mA[i]) |-> A_mA[i][t] * A_mA[i][t]])]

\* np.dot(A_mA, B_mB.T)[i][j]
Dot(x, y) == SumSeq([t \in 1..Len(x) |-> x[t] * y[t]])

\* A plausible slip: the result is laid out B by A.
corr2_coeff_Transposed(A, B) ==
    LET A_mA == Centred(A)
        B_mB == Centred(B)
        ssA == SumSq(A_mA)
        ssB == SumSq(B_mB)
    IN [j \in 1..Len(B) |-> [i \in 1..Len(A) |->
            Quot(Dot(A_mA[i], B_mB[j]), ssA[i] * ssB[j])]]

\* A plausible slip: both rows are normalised by the first operand.
corr2_coeff_SsA(A, B) ==
    LET A_mA == Centred(A)
        B_mB == Centred(B)
        ssA == SumSq(A_mA)
    IN [i \in 1..Len(A) |-> [j \in 1..Len(B) |->
            Quot(Dot(A_mA[i], B_mB[j]), ssA[i] * ssA[1])]]

\* np.dot(A_mA,B_mB.T)/np.sqrt(np.dot(ssA[:,None],ssB[None]))
corr2_coeff(A, B) ==
    LET A_mA == Centred(A)
        B_mB == Centred(B)
        ssA == SumSq(A_mA)
        ssB == SumSq(B_mB)
    IN [i \in 1..Len(A) |-> [j \in 1..Len(B) |->
            Quot(Dot(A_mA[i], B_mB[j]), ssA[i] * ssB[j])]]

\* What a call returns: a value, or the exception it raised.
Returned(k, corr) == [raised |-> "", k |-> k, corr |-> corr]
Raised(e) == [raised |-> e, k |-> <<>>, corr |-> <<>>]

\* getCorrelation(k,v).  pairBlock[0] of an empty list raises IndexError;
\* np.array([]) has one axis, so A.mean(1) of an empty block raises too.
getCorrelation(k, group) ==
    LET pairBlock == group
    IN IF Len(pairBlock) = 0 THEN Raised("IndexError")
       ELSE LET blockMatrix1 == pairBlock[1][2]
                blockMatrix2 == IF Len(pairBlock) = 1 THEN pairBlock[1][2]
                                ELSE pairBlock[2][2]
                k2 == IF Len(pairBlock) = 1
                      THEN <<pairBlock[1][1], pairBlock[1][1]>>
                      ELSE <<pairBlock[1][1], pairBlock[2][1]>>
            IN IF Len(blockMatrix1) = 0 \/ Len(blockMatrix2) = 0
               THEN Raised("IndexError")
               ELSE Returned(k2, corr2_coeff(blockMatrix1, blockMatrix2))

----------------------------------------------------------------------------
\* The pipeline, cell by cell.

\* The matrices of the model: any rows of RowPool, repeating after
\* MaxPeriod rows.
Matrices(rows) ==
    {m \in [1..rows -> RowPool] :
        \A i \in 1..rows : i > MaxPeriod => m[i] = m[i - MaxPeriod]}

Init ==
    /\ n \in 1..MaxN
    /\ p \in 1..MaxP
    /\ matrix \in Matrices(n)
    /\ pc = "matrix"
    /\ stage0 = <<>>
    /\ stage1 = <<>>
    /\ stage2 = <<>>
    /\ stage3 = <<>>
    /\ stage4 = <<>>
    /\ result = <<>>
    /\ kl = <<>>
    /\ keys = <<>>
    /\ v = <<>>
    /\ ret = <<>>

\* stage0=sc.parallelize(matrix,p)
Stage0 ==
    /\ pc = "matrix"
    /\ stage0' = parallelize(matrix, p)
    /\ pc' = "stage0"
    /\ UNCHANGED <<n, p, matrix, stage1, stage2, stage3, stage4, result>>
    /\ UNCHANGED <<keyVars, groupVars>>

\* stage1=stage0.mapPartitionsWithIndex(lambda splitIndex,v: f(splitIndex,v))
Stage1 ==
    /\ pc = "stage0"
    /\ stage1' = mapPartitionsWithIndex(stage0)
    /\ pc' = "stage1"
    /\ UNCHANGED <<n, p, matrix, stage0, stage2, stage3, stage4, result>>
    /\ UNCHANGED <<keyVars, groupVars>>

\* stage2=stage1.flatMap(lambda (k,v):makePairParts(k,v,p))
Stage2 ==
    /\ pc = "stage1"
    /\ stage2' = flatMapPairParts(stage1, p)
    /\ pc' = "stage2"
    /\ UNCHANGED <<n, p, matrix, stage0, stage1, stage3, stage4, result>>
    /\ UNCHANGED <<keyVars, groupVars>>

\* The keys of an RDD of (key, value) records and the records of a key.
KeysOf(rdd) == {rdd[i][1] : i \in DOMAIN rdd}
RecordsOf(rdd, key) == {i \in DOMAIN rdd : rdd[i][1] = key}

\* stage3=stage2.groupByKey().  The engine promises no order inside a
\* group: a group is delivered in the order of stage2 or, for the keys in
\* swapped, in the opposite order (every order of a group of two).
groupByKey(rdd, swapped) ==
    [key \in KeysOf(rdd) |->
        LET inOrder == [i \in 1..Cardinality(RecordsOf(rdd, key)) |->
                            rdd[Ascending(RecordsOf(rdd, key))[i]][2]]
        IN IF key \in swapped THEN Reverse(inOrder) ELSE inOrder]

Stage3 ==
    /\ pc = "stage2"
    /\ \E swapped \in SUBSET {key \in KeysOf(stage2) :
                                Cardinality(RecordsOf(stage2, key)) > 1} :
          stage3' = groupByKey(stage2, swapped)
    /\ pc' = "stage3"
    /\ UNCHANGED <<n, p, matrix, stage0, stage1, stage2, stage4, result>>
    /\ UNCHANGED <<keyVars, groupVars>>

\* stage4=stage3.map(lambda (k,v):getCorrelation(k,v))
Stage4 ==
    /\ pc = "stage3"
    /\ stage4' = [key \in DOMAIN stage3 |-> getCorrelation(key, stage3[key])]
    /\ pc' = "stage4"
    /\ UNCHANGED <<n, p, matrix, stage0, stage1, stage2, stage3, result>>
    /\ UNCHANGED <<keyVars, groupVars>>

\* stage4.collect(): the job fails when a task raised, else it returns the
\* (k, corrB1B2) pairs.
Failed(rdd) == \E key \in DOMAIN rdd : rdd[key].raised # ""
collect(rdd) ==
    IF Failed(rdd) THEN [failed |-> TRUE, pairs |-> {}]
    ELSE [failed |-> FALSE,
          pairs |-> {<<rdd[key].k, rdd[key].corr>> : key \in DOMAIN rdd}]

Collect ==
    /\ pc = "stage4"
    /\ result' = collect(stage4)
    /\ pc' = "done"
    /\ UNCHANGED <<n, p, matrix, stage0, stage1, stage2, stage3, stage4>>
    /\ UNCHANGED <<keyVars, groupVars>>

Next == Stage0 \/ Stage1 \/ Stage2 \/ Stage3 \/ Stage4 \/ Collect

Spec == Init /\ [][Next]_vars

----------------------------------------------------------------------------
\* The key function on its own: makePairParts builds str(sorted([k,l]))
\* for the pairs (k,l), (l,k) and (k2,l2).

InitKey ==
    /\ kl \in (0..MaxKeyIdx) \X (0..MaxKeyIdx) \X (0..MaxKeyIdx) \X (0..MaxKeyIdx)
    /\ keys = <<>>
    /\ n = 0
    /\ p = MaxKeyIdx + 1
    /\ matrix = <<>>
    /\ pc = "indices"
    /\ stage0 = <<>>
    /\ stage1 = <<>>
    /\ stage2 = <<>>
    /\ stage3 = <<>>
    /\ stage4 = <<>>
    /\ result = <<>>
    /\ v = <<>>
    /\ ret = <<>>

MakeKeys ==
    /\ pc = "indices"
    /\ keys' = <<makePairParts(kl[1], <<>>, p)[kl[2] + 1][1],
                 makePairParts(kl[2], <<>>, p)[kl[1] + 1][1],
                 makePairParts(kl[3], <<>>, p)[kl[4] + 1][1]>>
    /\ pc' = "keys"
    /\ UNCHANGED <<n, p, matrix, stage0, stage1, stage2, stage3, stage4, result>>
    /\ UNCHANGED <<kl, groupVars>>

NextKey == MakeKeys

SpecKey == InitKey /\ [][NextKey]_vars

----------------------------------------------------------------------------
\* getCorrelation on its own, given any group the engine could hand it.

GroupBlocks == UNION {[1..m -> RowPool] : m \in 0..MaxBlockLen}
GroupEntries == (0..MaxGroupIdx) \X GroupBlocks
Groups == UNION {[1..m -> GroupEntries] : m \in 0..MaxGroupLen}

InitGroup ==
    /\ v \in Groups
    /\ ret = <<>>
    /\ n = 0
    /\ p = 0
    /\ matrix = <<>>
    /\ pc = "group"
    /\ stage0 = <<>>
    /\ stage1 = <<>>
    /\ stage2 = <<>>
    /\ stage3 = <<>>
    /\ stage4 = <<>>
    /\ result = <<>>
    /\ kl = <<>>
    /\ keys = <<>>

CallGetCorrelation ==
    /\ pc = "group"
    /\ ret' = getCorrelation(<<>>, v)
    /\ pc' = "returned"
    /\ UNCHANGED <<n, p, matrix, stage0, stage1, stage2, stage3, stage4, result>>
    /\ UNCHANGED <<keyVars, v>>

NextGroup == CallGetCorrelation

SpecGroup == InitGroup /\ [][NextGroup]_vars

----------------------------------------------------------------------------
\* Vocabulary of the properties.

Ran(cells) == pc \in cells
Stage1Ran == Ran({"stage1", "stage2", "stage3", "stage4", "done"})
Stage2Ran == Ran({"stage2", "stage3", "stage4", "done"})
Stage3Ran == Ran({"stage3", "stage4", "done"})
Stage4Ran == Ran({"stage4", "done"})

\* The number of unordered pairs {k,l} of q indices, k = l included.
PairCount(q) == (q * (q + 1)) \div 2

\* The rows of the block stage 1 tagged a.
BlockTagged(a) == stage1[CHOOSE i \in DOMAIN stage1 : stage1[i][1] = a][2]

HasVariance(row) == \E s, t \in DOMAIN row : row[s] # row[t]

\* The sample Pearson correlation of two rows,
\*   sum (x_i - mean x)(y_i - mean y)
\*     / sqrt(sum (x_i - mean x)^2 * sum (y_i - mean y)^2),
\* numerator and denominator both scaled by Len(x)^2.
Dev(x, i) == Len(x) * x[i] - SumSeq(x)
Pearson(x, y) ==
    Quot(SumSeq([i \in DOMAIN x |-> Dev(x, i) * Dev(y, i)]),
         SumSeq([i \in DOMAIN x |-> Dev(x, i) * Dev(x, i)])
           * SumSeq([i \in DOMAIN y |-> Dev(y, i) * Dev(y, i)]))

\* The keys whose group has more than one entry, and what collect()
\* returns when the engine delivers exactly the groups of swapped in the
\* opposite order.
SwappableKeys ==
    {key \in KeysOf(stage2) : Cardinality(RecordsOf(stage2, key)) > 1}
ResultUnder(swapped) ==
    collect([key \in KeysOf(stage2) |->
                getCorrelation(key, groupByKey(stage2, swapped)[key])])

\* A group that is no pair group: no entry, more than two, or two entries
\* of the same block index.
Malformed(group) ==
    \/ Len(group) = 0
    \/ Len(group) > 2
    \/ Len(group) = 2 /\ group[1][1] = group[2][1]

----------------------------------------------------------------------------
\* C1: for every group of two entries with block indices k # l, in either
\* delivery order, the key getCorrelation emits is (min(k,l), max(k,l)).
\* The code emits the indices in delivery order, so this fails.
C1_KeyIsMinMax ==
    Stage4Ran =>
        \A key \in DOMAIN stage4 :
            LET group == stage3[key]
            IN (/\ Len(group) = 2
                /\ group[1][1] # group[2][1]
                /\ stage4[key].raised = "")
               => stage4[key].k = <<Min(group[1][1], group[2][1]),
                                    Max(group[1][1], group[2][1])>>

\* C2: after makePairParts ran on every block and the records are grouped,
\* there are exactly p(p+1)/2 keys, and the group of the key of {k,l},
\* 0 <= k <= l < p, holds exactly block k (once) when k = l, and exactly
\* block k and block l (once each) when k # l.
C2_PairGroups ==
    Stage3Ran =>
        /\ Cardinality(DOMAIN stage3) = PairCount(p)
        /\ \A k \in 0..(p - 1) : \A l \in k..(p - 1) :
            /\ PairKey(k, l) \in DOMAIN stage3
            /\ LET group == stage3[PairKey(k, l)]
               IN /\ Len(group) = (IF k = l THEN 1 ELSE 2)
                  /\ {group[i][1] : i \in DOMAIN group} = {k, l}
                  /\ \A i \in DOMAIN group :
                        group[i][2] = BlockTagged(group[i][1])

C2_Witness ==
    /\ pc = "stage3"
    /\ p = 3
    /\ n = 3
    /\ Len(stage3[PairKey(0, 2)]) = 2
    /\ stage3[PairKey(0, 2)][1][1] = 2
    /\ stage3[PairKey(0, 2)][2][1] = 0
    /\ Len(stage3[PairKey(1, 1)]) = 1

\* C3: for p in [1,n] the pipeline returns exactly p(p+1)/2 results whose
\* keys are exactly the pairs (lo,hi), 0 <= lo <= hi < p, whatever the
\* delivery order.  Fails for the reason C1 fails.
C3_ResultKeys ==
    (pc = "done" /\ p <= n) =>
        /\ ~result.failed
        /\ Cardinality(result.pairs) = PairCount(p)
        /\ {pair[1] : pair \in result.pairs}
             = {lohi \in (0..(p - 1)) \X (0..(p - 1)) : lohi[1] <= lohi[2]}

\* C4: for p in [1,n], stage 1 holds exactly p blocks, tagged 0..p-1 in
\* order, none empty, and the blocks laid end to end in tag order are the
\* matrix: the blocks are contiguous row ranges that split the rows.
C4_Partition ==
    (Stage1Ran /\ p <= n) =>
        /\ Len(stage1) = p
        /\ \A i \in 1..Len(stage1) :
            /\ stage1[i][1] = i - 1
            /\ Len(stage1[i][2]) > 0
        /\ Flatten([i \in 1..Len(stage1) |-> stage1[i][2]]) = matrix

\* The notebook's run: n=6, p=3, three blocks of two rows.
C4_Witness ==
    /\ pc = "stage1"
    /\ n = 6
    /\ p = 3
    /\ matrix[1] # matrix[2]
    /\ matrix[3] # matrix[5]
    /\ stage1 = <<<<0, SubSeq(matrix, 1, 2)>>,
                  <<1, SubSeq(matrix, 3, 4)>>,
                  <<2, SubSeq(matrix, 5, 6)>>>>

\* C5: when p > n, stage 1 caps the number of blocks to n (no statement
\* of the notebook raises InvalidPartitionCount), and no empty block
\* reaches makePairParts or getCorrelation.  The code does neither.
C5_NoEmptyBlock ==
    p > n =>
        /\ Stage1Ran =>
            /\ Len(stage1) <= n
            /\ \A i \in DOMAIN stage1 : stage1[i][2] # <<>>
        /\ Stage2Ran => \A i \in DOMAIN stage2 : stage2[i][2][2] # <<>>
        /\ Stage3Ran =>
            \A key \in DOMAIN stage3 : \A i \in DOMAIN stage3[key] :
                stage3[key][i][2] # <<>>

\* C6: given a group with no entry, more than two entries or two entries
\* of the same block index, getCorrelation raises MalformedPairGroup and
\* returns no result.  The code checks nothing of the kind.
C6_MalformedRaises ==
    (pc = "returned" /\ Malformed(v)) => ret.raised = "MalformedPairGroup"

\* C7: two runs on the same matrix and p that differ only in the order in
\* which the entries of the groups are delivered collect the same results:
\* what this run collected is what every other delivery order collects.
\* Fails for the reason C1 fails.
C7_OrderIndependent ==
    pc = "done" =>
        \A swapped \in SUBSET SwappableKeys : result = ResultUnder(swapped)

\* C8: the key of makePairParts is canonical: the keys of (k,l) and (l,k)
\* are equal, and the keys of two different unordered pairs differ.
C8_CanonicalKey ==
    pc = "keys" =>
        /\ keys[1] = keys[2]
        /\ {kl[1], kl[2]} # {kl[3], kl[4]} => keys[1] # keys[3]

C8_Witness ==
    /\ pc = "keys"
    /\ kl = <<10, 1, 0, 1>>
    /\ keys[1] = <<"[", "1", ",", " ", "1", "0", "]">>
    /\ keys[3] = <<"[", "0", ",", " ", "1", "]">>

\* C9: for a group of one entry (k, block), getCorrelation returns the
\* key (k,k) and the correlation of block with block: a square matrix of
\* size |block|, symmetric, with diagonal 1 when every row has variance.
C9_Diagonal ==
    Stage4Ran =>
        \A key \in DOMAIN stage4 :
            (Len(stage3[key]) = 1 /\ stage4[key].raised = "") =>
                LET k == stage3[key][1][1]
                    block == stage3[key][1][2]
                    corr == stage4[key].corr
                IN /\ stage4[key].k = <<k, k>>
                   /\ Len(corr) = Len(block)
                   /\ \A i \in DOMAIN corr : Len(corr[i]) = Len(block)
                   /\ \A i, j \in DOMAIN corr :
                        /\ corr[i][j] = corr[j][i]
                        /\ corr[i][j] = Pearson(block[i], block[j])
                   /\ (\A i \in DOMAIN block : HasVariance(block[i]))
                        => \A i \in DOMAIN corr : corr[i][i] = One

C9_Witness ==
    /\ pc = "stage4"
    /\ n = 4
    /\ p = 2
    /\ stage3[PairKey(1, 1)] = <<<<1, <<<<0, 1, 2>>, <<2, 0, 0>>>>>>>>
    /\ stage4[PairKey(1, 1)] =
          Returned(<<1, 1>>, <<<<One, <<-1, 3, 4>>>>, <<<<-1, 3, 4>>, One>>>>)

\* C10: for a group of one or two entries, in any delivery order, the
\* key (a,b) getCorrelation returns names the operands as they were used:
\* the matrix has a row per row of block a and a column per row of block
\* b, and entry [i][j] is the correlation of row i of block a with row j
\* of block b.
C10_KeyNamesOperands ==
    Stage4Ran =>
        \A key \in DOMAIN stage4 :
            (Len(stage3[key]) \in {1, 2} /\ stage4[key].raised = "") =>
                LET a == stage4[key].k[1]
                    b == stage4[key].k[2]
                    corr == stage4[key].corr
                IN /\ {a, b} = {stage3[key][i][1] : i \in DOMAIN stage3[key]}
                   /\ Len(corr) = Len(BlockTagged(a))
                   /\ \A i \in DOMAIN corr :
                        /\ Len(corr[i]) = Len(BlockTagged(b))
                        /\ \A j \in DOMAIN corr[i] :
                            corr[i][j] =
                                Pearson(BlockTagged(a)[i], BlockTagged(b)[j])

\* Blocks of one and two rows, delivered the higher index first.
C10_Witness ==
    /\ pc = "stage4"
    /\ n = 3
    /\ p = 2
    /\ matrix = <<<<0, 1, 2>>, <<2, 0, 0>>, <<0, 1, 2>>>>
    /\ stage3[PairKey(0, 1)][1][1] = 1
    /\ stage4[PairKey(0, 1)] =
          Returned(<<1, 0>>, <<<<<<-1, 3, 4>>>>, <<One>>>>)

====
